---- MODULE Spec2Model ----
(***************************************************************************)
(* A model of the exponentially decaying histogram of src/src/lib.rs:      *)
(* the builder, update_at with its rescale, snapshot, and the queries of a *)
(* snapshot.                                                               *)
(*                                                                         *)
(* f64 is modelled as a binary floating-point format with the exponent     *)
(* range of f64 and a mantissa of MantBits bits, rounding to nearest, ties *)
(* to even, with the special values zero, infinity and NaN.  A finite      *)
(* positive number is [c |-> "fin", e |-> e, m |-> m] and stands for       *)
(* m * 2^(e - (MantBits - 1)) with 2^(MantBits-1) <= m < 2^MantBits.       *)
(* Results below the smallest positive f64 (2^-1074) become zero, results  *)
(* of 2^1024 and above become infinity.                                    *)
(*                                                                         *)
(* An Instant is a whole number of ticks, TicksPerSec ticks to the second. *)
(***************************************************************************)
EXTENDS Integers, Sequences, FiniteSets, TLC

\* ------------------------------------------------------------------ f64

\* mantissa bits of the model's f64
MantBits == 8

\* largest and smallest binary exponent of a positive f64
EMax == 1023
EMin == -1074

Pow2(n) == 2 ^ n

RECURSIVE BitLen(_)
BitLen(n) == IF n <= 0 THEN 0 ELSE 1 + BitLen(n \div 2)

Zero == [c |-> "zero", e |-> 0, m |-> 0]
Inf  == [c |-> "inf",  e |-> 0, m |-> 0]
NaN  == [c |-> "nan",  e |-> 0, m |-> 0]
\* a negative number: only its sign is used (it is only ever compared)
Neg  == [c |-> "neg",  e |-> 0, m |-> 0]

Fin(e, m) ==
    IF e > EMax THEN Inf
    ELSE IF e < EMin THEN Zero
    ELSE [c |-> "fin", e |-> e, m |-> m]

\* the f64 nearest to n * 2^x, for an integer n >= 0
Round(n, x) ==
    IF n = 0 THEN Zero
    ELSE LET len == BitLen(n) IN
         IF len <= MantBits
         THEN Fin(x + len - 1, n * Pow2(MantBits - len))
         ELSE LET sh   == len - MantBits
                  q    == n \div Pow2(sh)
                  r    == n % Pow2(sh)
                  half == Pow2(sh - 1)
                  up   == r > half \/ (r = half /\ q % 2 = 1)
                  q2   == IF up THEN q + 1 ELSE q
              IN IF q2 = Pow2(MantBits)
                 THEN Fin(x + len, Pow2(MantBits - 1))
                 ELSE Fin(x + len - 1, q2)

\* the f64 nearest to the fraction n / d (n >= 0, d > 0)
Ratio(n, d) ==
    LET s  == MantBits + 3
        q  == (n * Pow2(s)) \div d
        st == IF (n * Pow2(s)) % d = 0 THEN 0 ELSE 1
    IN Round(2 * q + st, -(s + 1))

One == Ratio(1, 1)

IsNaN(a) == a.c = "nan"

\* a < b on f64 (false when either is NaN)
FLt(a, b) ==
    CASE IsNaN(a) \/ IsNaN(b) -> FALSE
      [] a.c = "neg"  -> b.c # "neg"
      [] b.c = "neg"  -> FALSE
      [] a.c = "zero" -> b.c # "zero"
      [] a.c = "inf"  -> FALSE
      [] b.c = "zero" -> FALSE
      [] b.c = "inf"  -> TRUE
      [] OTHER        -> a.e < b.e \/ (a.e = b.e /\ a.m < b.m)

\* a <= b on f64 (false when either is NaN)
FLe(a, b) == ~IsNaN(a) /\ ~IsNaN(b) /\ (a = b \/ FLt(a, b))

\* a * b on non-negative f64
FMul(a, b) ==
    CASE IsNaN(a) \/ IsNaN(b) -> NaN
      [] a.c = "zero" -> IF b.c = "inf" THEN NaN ELSE Zero
      [] b.c = "zero" -> IF a.c = "inf" THEN NaN ELSE Zero
      [] a.c = "inf" \/ b.c = "inf" -> Inf
      [] OTHER -> Round(a.m * b.m, a.e + b.e - 2 * (MantBits - 1))

\* a / b on non-negative f64
FDiv(a, b) ==
    CASE IsNaN(a) \/ IsNaN(b) -> NaN
      [] a.c = "zero" -> IF b.c = "zero" THEN NaN ELSE Zero
      [] a.c = "inf"  -> IF b.c = "inf" THEN NaN ELSE Inf
      [] b.c = "zero" -> Inf
      [] b.c = "inf"  -> Zero
      [] OTHER ->
           LET s  == MantBits + 2
               q  == (a.m * Pow2(s)) \div b.m
               st == IF (a.m * Pow2(s)) % b.m = 0 THEN 0 ELSE 1
           IN Round(2 * q + st, a.e - b.e - (s + 1))

\* a + b on non-negative f64
FAdd(a, b) ==
    CASE IsNaN(a) \/ IsNaN(b) -> NaN
      [] a.c = "zero" -> b
      [] b.c = "zero" -> a
      [] a.c = "inf" \/ b.c = "inf" -> Inf
      [] OTHER ->
           LET hi == IF a.e >= b.e THEN a ELSE b
               lo == IF a.e >= b.e THEN b ELSE a
               d  == hi.e - lo.e
           IN IF d > MantBits + 2 THEN hi
              ELSE Round(hi.m * Pow2(d) + lo.m, lo.e - (MantBits - 1))

\* |a - b| on non-negative f64
FAbsDiff(a, b) ==
    CASE IsNaN(a) \/ IsNaN(b) -> NaN
      [] a.c = "inf" -> IF b.c = "inf" THEN NaN ELSE Inf
      [] b.c = "inf" -> Inf
      [] a.c = "zero" -> b
      [] b.c = "zero" -> a
      [] OTHER ->
           LET hi == IF FLt(a, b) THEN b ELSE a
               lo == IF FLt(a, b) THEN a ELSE b
               d  == hi.e - lo.e
           IN IF d > MantBits + 2 THEN hi
              ELSE Round(hi.m * Pow2(d) - lo.m, lo.e - (MantBits - 1))

\* the largest r in lo..hi with r * r <= n
RECURSIVE Isqrt(_, _, _)
Isqrt(n, lo, hi) ==
    IF lo >= hi THEN lo
    ELSE LET mid == (lo + hi + 1) \div 2
         IN IF mid * mid <= n THEN Isqrt(n, mid, hi) ELSE Isqrt(n, lo, mid - 1)

\* sqrt(a) on non-negative f64
FSqrt(a) ==
    CASE IsNaN(a) -> NaN
      [] a.c = "zero" -> Zero
      [] a.c = "inf" -> Inf
      [] OTHER ->
           LET x  == a.e - (MantBits - 1)
               s  == MantBits + 4 + ((x - MantBits) % 2)
               n  == a.m * Pow2(s)
               r  == Isqrt(n, 0, Pow2(MantBits + 3))
               st == IF r * r = n THEN 0 ELSE 1
           IN Round(2 * r + st, ((x - s) \div 2) - 1)

\* v as f64, for an integer v >= 0
FromInt(v) == Ratio(v, 1)

\* exp(x) for x given in thousandths: 2^(x * log2(e)), the integer part of
\* the exponent exactly and the fractional part by its Taylor series
FExp(xm) ==
    IF xm > 709782 THEN Inf
    ELSE IF xm < -745133 THEN Zero
    ELSE LET l   == (xm * 1443) \div 1000
             e   == l \div 1000
             y   == l % 1000
             z   == (y * 693) \div 1000
             t2  == (z * z) \div 2000
             t3  == (z * z * z) \div 6000000
             t4  == (t3 * z) \div 4000
             sum == 1000 + z + t2 + t3 + t4
         IN IF xm = 0 THEN One
            ELSE Round((sum * Pow2(MantBits + 2)) \div 1000, e - (MantBits + 2))

\* ------------------------------------------------------ time and inputs

\* ticks of an Instant per second
TicksPerSec == 2

\* RESCALE_THRESHOLD, one hour, in seconds
RESCALE_THRESHOLD == 3600

\* the defaults of ExponentialDecayHistogram::builder(); alpha in thousandths
DefaultSize == 1028
DefaultAlpha == 15

\* most update calls on one histogram, and the largest size set explicitly
MaxUpdates == 3
MaxSize == 2

\* the instants the clock and the callers supply: the construction instant,
\* two minutes and a half second later, one hour later
Instants == {0, 120 * TicksPerSec + 1, RESCALE_THRESHOLD * TicksPerSec}
BuildInstants == {0, 120 * TicksPerSec + 1}

\* alpha, in thousandths: 0.015 and 0.99
Alphas == {DefaultAlpha, 990}

\* the values updated with
Vals == {1, 10}

\* the draws of the random number generator, all in the open interval (0, 1)
Draws == {Ratio(1, 2), Ratio(1, 4)}

\* the quantiles asked for
Quantiles == {Zero, Ratio(1, 2), Ratio(3, 4), One, Ratio(3, 2), Neg, NaN}

\* ------------------------------------------------------------ the state

VARIABLES
    pc,               \* "builder", "live" or "panicked"
    builder,          \* the Builder: [now, size, alpha]
    values,           \* the BTreeMap, as the sequence of its entries in key order
    alpha,
    size,
    count,
    start_time,
    next_scale_time,
    snap,             \* the Snapshot last taken: [some, entries, count, calls]
    ret,              \* what the last call on the snapshot returned
    calls,            \* history: the update_at calls made
    inserted,         \* history: the values passed to update_at
    collided,         \* history: some insert or rescale found its key present
    clock,            \* history: the latest instant the histogram was given
    ordered,          \* history: no instant given was earlier than one before
    script,           \* the test that drives the histogram: [x, y, seed]
    last              \* history: the update_at call, when the latest step was one

vars == <<pc, builder, values, alpha, size, count, start_time, next_scale_time,
          snap, ret, calls, inserted, collided, clock, ordered, script, last>>

hist == <<values, alpha, size, count, start_time, next_scale_time>>

NoSnap == [some |-> FALSE, entries |-> <<>>, count |-> 0, calls |-> 0]
NoRet == [kind |-> "none"]

\* no update_at call was the latest step, or it did not return
NoLast == [some |-> FALSE, time |-> 0, start_time |-> 0, next_scale_time |-> 0,
           old |-> <<>>, before |-> <<>>,
           sample |-> [k |-> Zero, value |-> 0, weight |-> Zero]]

\* ------------------------------------------------------------- BTreeMap

\* the index of key k in the map m, 0 when absent
KeyIndex(m, k) ==
    IF \E i \in 1..Len(m) : m[i].k = k
    THEN CHOOSE i \in 1..Len(m) : m[i].k = k
    ELSE 0

\* BTreeMap::insert: the sample of a key already present is replaced
MapInsert(m, e) ==
    LET i == KeyIndex(m, e.k)
        n == Cardinality({j \in 1..Len(m) : FLt(m[j].k, e.k)})
    IN IF i # 0 THEN [m EXCEPT ![i] = e]
       ELSE SubSeq(m, 1, n) \o <<e>> \o SubSeq(m, n + 1, Len(m))

\* BTreeMap::remove
MapRemove(m, k) == SelectSeq(m, LAMBDA e : e.k # k)

\* collect() into a BTreeMap: of two pairs with one key the later stays
RECURSIVE MapCollect(_, _)
MapCollect(pairs, acc) ==
    IF pairs = <<>> THEN acc
    ELSE MapCollect(Tail(pairs), MapInsert(acc, Head(pairs)))

\* --------------------------------------------------------------- Builder

NewBuilder(now) == [now |-> now, size |-> DefaultSize, alpha |-> DefaultAlpha]

NoScript == [x |-> 0, y |-> 0, seed |-> 0]

\* the state with the builder b made and nothing built yet
InitWith(b, sc) ==
    /\ pc = "builder"
    /\ builder = b
    /\ script = sc
    /\ values = <<>>
    /\ alpha = 0
    /\ size = 0
    /\ count = 0
    /\ start_time = 0
    /\ next_scale_time = 0
    /\ snap = NoSnap
    /\ ret = NoRet
    /\ calls = 0
    /\ inserted = {}
    /\ collided = FALSE
    /\ clock = 0
    /\ ordered = TRUE
    /\ last = NoLast

Init == \E now \in BuildInstants : InitWith(NewBuilder(now), NoScript)

Panic == pc' = "panicked"

BuilderAt(now) ==
    /\ pc = "builder"
    /\ builder' = [builder EXCEPT !.now = now]
    /\ UNCHANGED <<pc, hist, snap, ret, calls, inserted, collided, clock, ordered, script, last>>

\* the assertion letting a size of zero through
SizeAccepted_AllowsZero(s) == s >= 0

\* assert!(size > 0)
SizeAccepted(s) == s > 0

BuilderSize(s) ==
    /\ pc = "builder"
    /\ IF SizeAccepted(s)
       THEN /\ builder' = [builder EXCEPT !.size = s]
            /\ UNCHANGED pc
       ELSE /\ Panic
            /\ UNCHANGED builder
    /\ UNCHANGED <<hist, snap, ret, calls, inserted, collided, clock, ordered, script, last>>

BuilderAlpha(a) ==
    /\ pc = "builder"
    /\ builder' = [builder EXCEPT !.alpha = a]
    /\ UNCHANGED <<pc, hist, snap, ret, calls, inserted, collided, clock, ordered, script, last>>

\* the histogram Builder::build makes of the builder b
BuildFrom(b) ==
    /\ pc' = "live"
    /\ builder' = b
    /\ values' = <<>>
    /\ alpha' = b.alpha
    /\ size' = b.size
    /\ count' = 0
    /\ start_time' = b.now
    /\ next_scale_time' = b.now + RESCALE_THRESHOLD * TicksPerSec
    /\ clock' = b.now
    /\ UNCHANGED <<snap, ret, calls, inserted, collided, ordered, script, last>>

Build ==
    /\ pc = "builder"
    /\ BuildFrom(builder)

\* Self::builder().size(size).alpha(alpha).build(), on a builder of its own
\* made at the instant now
WithSizeAndAlpha(now, s, a) ==
    /\ pc = "builder"
    /\ IF SizeAccepted(s)
       THEN BuildFrom([NewBuilder(now) EXCEPT !.size = s, !.alpha = a])
       ELSE /\ Panic
            /\ builder' = NewBuilder(now)
            /\ UNCHANGED <<hist, snap, ret, calls, inserted, collided, clock, ordered, script, last>>

\* ------------------------------------------------------------ update_at

\* (later - earlier).as_secs(); the difference of an earlier and a later
\* instant saturates to zero
Elapsed(later, earlier) ==
    IF later < earlier THEN 0 ELSE (later - earlier) \div TicksPerSec

\* the weight with no decay
weight_NoDecay(a, start, time) == One

\* the weight measured from the epoch the call found, whatever rescale did
weight_FromOldEpoch(a, start, time) == FExp(a * Elapsed(time, start_time))

\* ExponentialDecayHistogram::weight, for alpha a and epoch start
weight(a, start, time) == FExp(a * Elapsed(time, start))

\* the scaling factor of a rescale at the instant now
scaling_factor(now) == FExp((-alpha) * Elapsed(now, start_time))

\* the rescale with the value of every sample lost
rescale_LosesValue(now) ==
    LET scaled == [i \in 1..Len(values) |->
                      [k      |-> FMul(values[i].k, scaling_factor(now)),
                       value  |-> 0,
                       weight |-> FMul(values[i].weight, scaling_factor(now))]]
        panic == IsNaN(scaling_factor(now))
                    \/ \E i \in 1..Len(values) : IsNaN(scaled[i].k)
    IN [panic           |-> panic,
        values          |-> IF panic THEN values ELSE MapCollect(scaled, <<>>),
        start_time      |-> now,
        next_scale_time |-> now + RESCALE_THRESHOLD * TicksPerSec]

\* the rescale that keeps only the samples of a positive scaled weight
rescale_DropsZeroWeights(now) ==
    LET scaled == [i \in 1..Len(values) |->
                      [k      |-> FMul(values[i].k, scaling_factor(now)),
                       value  |-> values[i].value,
                       weight |-> FMul(values[i].weight, scaling_factor(now))]]
        panic == IsNaN(scaling_factor(now))
                    \/ \E i \in 1..Len(values) : IsNaN(scaled[i].k)
    IN [panic           |-> panic,
        values          |-> IF panic THEN values
                            ELSE MapCollect(SelectSeq(scaled, LAMBDA e : e.weight # Zero), <<>>),
        start_time      |-> now,
        next_scale_time |-> now + RESCALE_THRESHOLD * TicksPerSec]

\* the rescale that leaves the time of the next rescale as it was
rescale_StaleNext(now) ==
    LET scaled == [i \in 1..Len(values) |->
                      [k      |-> FMul(values[i].k, scaling_factor(now)),
                       value  |-> values[i].value,
                       weight |-> FMul(values[i].weight, scaling_factor(now))]]
        panic == IsNaN(scaling_factor(now))
                    \/ \E i \in 1..Len(values) : IsNaN(scaled[i].k)
    IN [panic           |-> panic,
        values          |-> IF panic THEN values ELSE MapCollect(scaled, <<>>),
        start_time      |-> now,
        next_scale_time |-> next_scale_time]

\* the rescale that keys every sample by its scaled weight
rescale_KeysFromWeights(now) ==
    LET scaled == [i \in 1..Len(values) |->
                      [k      |-> FMul(values[i].weight, scaling_factor(now)),
                       value  |-> values[i].value,
                       weight |-> FMul(values[i].weight, scaling_factor(now))]]
        panic == IsNaN(scaling_factor(now))
                    \/ \E i \in 1..Len(values) : IsNaN(scaled[i].k)
    IN [panic           |-> panic,
        values          |-> IF panic THEN values ELSE MapCollect(scaled, <<>>),
        start_time      |-> now,
        next_scale_time |-> now + RESCALE_THRESHOLD * TicksPerSec]

\* ExponentialDecayHistogram::rescale: the fields it leaves, and whether a
\* NotNan operation panicked (the map is then not assigned)
rescale(now) ==
    LET scaled == [i \in 1..Len(values) |->
                      [k      |-> FMul(values[i].k, scaling_factor(now)),
                       value  |-> values[i].value,
                       weight |-> FMul(values[i].weight, scaling_factor(now))]]
        panic == IsNaN(scaling_factor(now))
                    \/ \E i \in 1..Len(values) : IsNaN(scaled[i].k)
    IN [panic           |-> panic,
        values          |-> IF panic THEN values ELSE MapCollect(scaled, <<>>),
        start_time      |-> now,
        next_scale_time |-> now + RESCALE_THRESHOLD * TicksPerSec]

\* whether the rescale update_at(now, _) brings maps two keys to one
KeysMerge(now) ==
    /\ now >= next_scale_time
    /\ \E i, j \in 1..Len(values) :
          /\ i < j
          /\ FMul(values[i].k, scaling_factor(now)) = FMul(values[j].k, scaling_factor(now))

\* the rescale made only once next_scale_time has passed
rescale_if_needed_Late(now) ==
    IF now > next_scale_time
    THEN rescale(now)
    ELSE [panic           |-> FALSE,
          values          |-> values,
          start_time      |-> start_time,
          next_scale_time |-> next_scale_time]

\* ExponentialDecayHistogram::rescale_if_needed
rescale_if_needed(now) ==
    IF now >= next_scale_time
    THEN rescale(now)
    ELSE [panic           |-> FALSE,
          values          |-> values,
          start_time      |-> start_time,
          next_scale_time |-> next_scale_time]

\* the insertion with the contest of priorities held below capacity too
Admit_AlwaysContest(m, cap, e) ==
    IF m = <<>>
    THEN MapInsert(m, e)
    ELSE IF FLt(m[1].k, e.k)
         THEN IF KeyIndex(m, e.k) = 0
              THEN MapRemove(MapInsert(m, e), m[1].k)
              ELSE MapInsert(m, e)
         ELSE m

\* the insertion with the first key never removed
Admit_NeverEvicts(m, cap, e) ==
    IF Len(m) < cap \/ FLt(m[1].k, e.k) THEN MapInsert(m, e) ELSE m

\* the insertion with the capacity test off by one
Admit_OffByOne(m, cap, e) ==
    IF Len(m) <= cap
    THEN MapInsert(m, e)
    ELSE IF FLt(m[1].k, e.k)
         THEN IF KeyIndex(m, e.k) = 0
              THEN MapRemove(MapInsert(m, e), m[1].k)
              ELSE MapInsert(m, e)
         ELSE m

\* the insertion with the contest won on a tie of priorities too
Admit_TieWins(m, cap, e) ==
    IF Len(m) < cap
    THEN MapInsert(m, e)
    ELSE IF FLe(m[1].k, e.k)
         THEN IF KeyIndex(m, e.k) = 0
              THEN MapRemove(MapInsert(m, e), m[1].k)
              ELSE MapInsert(m, e)
         ELSE m

\* the insertion at the end of update_at: below capacity the sample is
\* inserted; at capacity it is inserted when its priority is above the first
\* key, and the first key is removed when the insert found no such key
Admit(m, cap, e) ==
    IF Len(m) < cap
    THEN MapInsert(m, e)
    ELSE LET first == m[1].k
         IN IF FLt(first, e.k)
            THEN IF KeyIndex(m, e.k) = 0
                 THEN MapRemove(MapInsert(m, e), first)
                 ELSE MapInsert(m, e)
            ELSE m

\* whether the insertion of Admit found its key present
Overwrites(m, cap, e) ==
    /\ KeyIndex(m, e.k) # 0
    /\ (Len(m) < cap \/ FLt(m[1].k, e.k))

\* update_at(time, value) with the draw u; early is what the subtraction of
\* a later instant from an earlier one does: "saturate" or "panic"
update_at(time, value, u, early) ==
    /\ pc = "live"
    /\ calls' = calls + 1
    /\ inserted' = inserted \cup {value}
    /\ clock' = IF time > clock THEN time ELSE clock
    /\ ordered' = (ordered /\ time >= clock)
    /\ \E r \in {rescale_if_needed(time)} :
       \E item_weight \in {weight(alpha, r.start_time, time)} :
       \E priority \in {FDiv(item_weight, u)} :
       \E sample \in {[k |-> priority, value |-> value, weight |-> item_weight]} :
          /\ start_time' = r.start_time
          /\ next_scale_time' = r.next_scale_time
          /\ IF r.panic
             THEN /\ Panic
                  /\ last' = NoLast
                  /\ UNCHANGED <<values, count, collided>>
             ELSE /\ count' = count + 1
                  /\ IF (time < r.start_time /\ early = "panic") \/ IsNaN(priority)
                     THEN /\ Panic
                          /\ last' = NoLast
                          /\ values' = r.values
                          /\ collided' = (collided \/ KeysMerge(time))
                     ELSE /\ UNCHANGED pc
                          /\ last' = [some |-> TRUE, time |-> time,
                                      start_time |-> start_time,
                                      next_scale_time |-> next_scale_time,
                                      old |-> values, before |-> r.values,
                                      sample |-> sample]
                          /\ values' = Admit(r.values, size, sample)
                          /\ collided' = (collided \/ KeysMerge(time)
                                            \/ Overwrites(r.values, size, sample))
    /\ snap' = NoSnap
    /\ ret' = NoRet
    /\ UNCHANGED <<builder, alpha, size, script>>


\* update(value): update_at at the instant now that Instant::now() gives
update(now, value, u, early) == update_at(now, value, u, early)

\* -------------------------------------------------------------- snapshot

\* the place of entry i after a stable sort ascending by value: after the
\* entries of a smaller value and the earlier entries of its own value
SortedPlace(es, i) ==
    Cardinality({j \in 1..Len(es) : es[j].value < es[i].value})
    + Cardinality({j \in 1..i : es[j].value = es[i].value})

\* the entries left in the order of the map
SortByValue_Unsorted(es) == es

\* sort_by_key(|e| e.value): a stable sort, ascending by value
SortByValue(es) ==
    [p \in 1..Len(es) |-> es[CHOOSE i \in 1..Len(es) : SortedPlace(es, i) = p]]

\* iter().map(|e| e.norm_weight).sum::<f64>(), from the sum acc so far
RECURSIVE SumWeights(_, _)
SumWeights(es, acc) ==
    IF es = <<>> \/ IsNaN(acc) THEN acc
    ELSE SumWeights(Tail(es), FAdd(acc, Head(es).norm_weight))

\* the fold that gives every entry the sum of the weights up to its own
Quantiles_fold_Inclusive(es) ==
    [i \in 1..Len(es) |->
        [es[i] EXCEPT !.quantile = SumWeights(SubSeq(es, 1, i), Zero)]]

\* the fold that gives every entry the sum of the weights before it, added
\* up from zero in the order of the entries
Quantiles_fold(es) ==
    [i \in 1..Len(es) |->
        [es[i] EXCEPT !.quantile = SumWeights(SubSeq(es, 1, i - 1), Zero)]]

\* the snapshot with the weights left as they are stored
snapshot_entries_NotNormalized(m) ==
    LET entries == SortByValue([i \in 1..Len(m) |->
                       [value |-> m[i].value, norm_weight |-> m[i].weight,
                        quantile |-> Zero]])
    IN [panic   |-> \E i \in 1..Len(entries) : IsNaN(entries[i].norm_weight),
        entries |-> Quantiles_fold(entries)]

\* ExponentialDecayHistogram::snapshot: the entries, and whether NotNan::new
\* panicked on a normalized weight
snapshot_entries(m) ==
    LET entries == SortByValue([i \in 1..Len(m) |->
                       [value |-> m[i].value, norm_weight |-> m[i].weight,
                        quantile |-> Zero]])
        sum_weight == SumWeights(entries, Zero)
        normed == [i \in 1..Len(entries) |->
                      [entries[i] EXCEPT !.norm_weight = FDiv(@, sum_weight)]]
    IN [panic   |-> \E i \in 1..Len(normed) : IsNaN(normed[i].norm_weight),
        entries |-> Quantiles_fold(normed)]

snapshot ==
    /\ pc = "live"
    /\ \E s \in {snapshot_entries(values)} :
          IF s.panic
          THEN /\ Panic
               /\ UNCHANGED snap
          ELSE /\ UNCHANGED pc
               /\ snap' = [some |-> TRUE, entries |-> s.entries,
                           count |-> count, calls |-> calls]
    /\ ret' = NoRet
    /\ last' = NoLast
    /\ UNCHANGED <<builder, hist, calls, inserted, collided, clock, ordered, script>>

\* the assertion without its lower bound
QuantileAccepted_NoLowerBound(q) == FLe(q, One)

\* assert!(quantile >= 0. && quantile <= 1.)
QuantileAccepted(q) == FLe(Zero, q) /\ FLe(q, One)

\* binary_search_by(|e| e.quantile.cmp(&quantile)): the results it can give,
\* Ok(i) for any entry i with that quantile, else Err of the insertion point
\* (indices from 1)
binary_search(es, q) ==
    IF \E i \in 1..Len(es) : es[i].quantile = q
    THEN {[ok |-> TRUE, idx |-> i] : i \in {j \in 1..Len(es) : es[j].quantile = q}}
    ELSE {[ok |-> FALSE,
           idx |-> 1 + Cardinality({j \in 1..Len(es) : FLt(es[j].quantile, q)})]}

\* the index with a failed search giving the entry before the insertion
\* point, the last one below the quantile
value_index_EntryBelow(es, r) == IF r.ok THEN r.idx ELSE r.idx - 1

\* the index Snapshot::value takes of a search result
value_index(es, r) ==
    IF r.ok THEN r.idx
    ELSE IF r.idx >= Len(es) + 1 THEN Len(es)
    ELSE r.idx

\* Snapshot::value
value(q) ==
    /\ pc = "live"
    /\ snap.some
    /\ IF ~QuantileAccepted(q)
       THEN /\ Panic
            /\ ret' = [kind |-> "panic", q |-> q]
       ELSE /\ UNCHANGED pc
            /\ IF snap.entries = <<>>
               THEN ret' = [kind |-> "value", q |-> q, v |-> 0]
               ELSE \E r \in binary_search(snap.entries, q) :
                       ret' = [kind |-> "value", q |-> q,
                               v |-> snap.entries[value_index(snap.entries, r)].value]
    /\ UNCHANGED <<builder, hist, snap, calls, inserted, collided, clock, ordered, script, last>>

\* Snapshot::max
max(es) == IF es = <<>> THEN 0 ELSE es[Len(es)].value

\* Snapshot::min
min(es) == IF es = <<>> THEN 0 ELSE es[1].value

\* the sum of the terms f[1], ..., f[n] of f64, from the sum acc so far
RECURSIVE FSum(_, _, _)
FSum(f, i, acc) ==
    IF i > Len(f) \/ IsNaN(acc) THEN acc ELSE FSum(f, i + 1, FAdd(acc, f[i]))

\* the mean as the weighted sum divided by the sum of the weights
mean_DividedByWeights(es) ==
    FDiv(FSum([i \in 1..Len(es) |-> FMul(FromInt(es[i].value), es[i].norm_weight)], 1, Zero),
         SumWeights(es, Zero))

\* Snapshot::mean
mean(es) ==
    FSum([i \in 1..Len(es) |-> FMul(FromInt(es[i].value), es[i].norm_weight)], 1, Zero)

\* Snapshot::stddev
stddev(es) ==
    IF Len(es) <= 1 THEN Zero
    ELSE LET m == mean(es)
             variance ==
                 FSum([i \in 1..Len(es) |->
                          LET diff == FAbsDiff(FromInt(es[i].value), m)
                          IN FMul(FMul(es[i].norm_weight, diff), diff)], 1, Zero)
         IN FSqrt(variance)

\* a query of the snapshot that changes nothing and returns r
Query(r) ==
    /\ pc = "live"
    /\ snap.some
    /\ ret' = r
    /\ UNCHANGED <<pc, builder, hist, snap, calls, inserted, collided, clock, ordered, script, last>>

snapshot_max == Query([kind |-> "max", v |-> max(snap.entries)])

snapshot_min == Query([kind |-> "min", v |-> min(snap.entries)])

snapshot_mean == Query([kind |-> "mean", v |-> mean(snap.entries)])

snapshot_stddev == Query([kind |-> "stddev", v |-> stddev(snap.entries)])

\* count() giving the number of entries
snapshot_count_Entries ==
    /\ pc = "live"
    /\ snap.some
    /\ ret' = [kind |-> "count", v |-> Len(snap.entries)]
    /\ UNCHANGED <<pc, builder, hist, snap, calls, inserted, collided, clock, ordered, script, last>>

\* Snapshot::count
snapshot_count ==
    /\ pc = "live"
    /\ snap.some
    /\ ret' = [kind |-> "count", v |-> snap.count]
    /\ UNCHANGED <<pc, builder, hist, snap, calls, inserted, collided, clock, ordered, script, last>>

\* Values::next on the entries left: the pair it yields and the entries left
\* after it
RECURSIVE Values_run(_, _, _)
Values_run(it, v, w) ==
    IF it # <<>> /\ Head(it).value = v
    THEN Values_run(Tail(it), v, FAdd(w, Head(it).norm_weight))
    ELSE [item |-> <<v, w>>, it |-> it]

\* next() without the merge of the entries of one value
Values_next_NoMerge(it) ==
    [item |-> <<Head(it).value, Head(it).norm_weight>>, it |-> Tail(it)]

Values_next(it) == Values_run(Tail(it), Head(it).value, Head(it).norm_weight)

\* snapshot.values().collect()
RECURSIVE Values_collect(_)
Values_collect(it) ==
    IF it = <<>> THEN <<>>
    ELSE LET n == Values_next(it) IN <<n.item>> \o Values_collect(n.it)

snapshot_values ==
    /\ pc = "live"
    /\ snap.some
    /\ ret' = [kind |-> "values", items |-> Values_collect(snap.entries)]
    /\ UNCHANGED <<pc, builder, hist, snap, calls, inserted, collided, clock, ordered, script, last>>

\* ------------------------------------------------------ specification

\* what the subtraction in weight can do at the instant t
EarlyOutcomes(t) == IF t < start_time THEN {"saturate", "panic"} ELSE {"saturate"}

\* a caller's update_at, with any instant
UpdateAt ==
    \E t \in Instants, v \in Vals, u \in Draws :
       \E early \in EarlyOutcomes(t) :
          calls < MaxUpdates /\ update_at(t, v, u, early)

\* a caller's update: the clock does not go back
Update ==
    \E now \in {i \in Instants : i >= clock}, v \in Vals, u \in Draws :
       \E early \in EarlyOutcomes(now) :
          calls < MaxUpdates /\ update(now, v, u, early)

Next ==
    \/ \E now \in BuildInstants : BuilderAt(now)
    \/ \E s \in 0..MaxSize : BuilderSize(s)
    \/ \E a \in Alphas : BuilderAlpha(a)
    \/ Build
    \/ \E now \in BuildInstants, s \in 0..MaxSize, a \in Alphas : WithSizeAndAlpha(now, s, a)
    \/ UpdateAt
    \/ Update
    \/ snapshot
    \/ \E q \in Quantiles : value(q)
    \/ snapshot_count
    \/ snapshot_values
    \/ snapshot_max
    \/ snapshot_min
    \/ snapshot_mean
    \/ snapshot_stddev

Spec == Init /\ [][Next]_vars

\* ------------------------------------- test quantiles_should_be_based_on_weights

\* the size of the histogram of the test, its updates of the first value
\* and its updates of the second value two minutes later
WeightsSize == 1000
WeightsFirst == 40
WeightsSecond == 10

\* the values of the test, in either order
WeightsVals == {177, 9999}

\* the generators of the test
Seeds == {0, 1, 2}

\* the i-th draw of the generator seeded with seed: ascending and descending
\* sixty-fourths, and a generator of period 8
Draw(seed, i) ==
    CASE seed = 0 -> Ratio(i + 1, 64)
      [] seed = 1 -> Ratio(63 - i, 64)
      [] OTHER    -> Ratio((i % 8) + 1, 64)

InitWeights ==
    \E x \in WeightsVals, y \in WeightsVals, seed \in Seeds :
       x # y /\ InitWith(NewBuilder(1), [x |-> x, y |-> y, seed |-> seed])

\* builder().at(now).size(1000).alpha(0.015).build()
WeightsAt == builder.now = 1 /\ BuilderAt(0)

WeightsSize_ == builder.now = 0 /\ builder.size = DefaultSize /\ BuilderSize(WeightsSize)

WeightsAlpha == builder.size = WeightsSize /\ BuilderAlpha(DefaultAlpha)

WeightsBuild == builder.size = WeightsSize /\ Build

\* for _ in 0..40 { histogram.update_at(now, x) }
WeightsUpdateFirst ==
    /\ calls < WeightsFirst
    /\ update_at(0, script.x, Draw(script.seed, calls), "saturate")

\* now += 120 s; for _ in 0..10 { histogram.update_at(now, y) }
WeightsUpdateSecond ==
    /\ calls >= WeightsFirst
    /\ calls < WeightsFirst + WeightsSecond
    /\ update_at(120 * TicksPerSec, script.y, Draw(script.seed, calls), "saturate")

WeightsSnapshot ==
    /\ calls = WeightsFirst + WeightsSecond
    /\ ~snap.some
    /\ snapshot

WeightsValue == \E q \in {Ratio(1, 2), Ratio(3, 4)} : value(q)

NextWeights ==
    \/ WeightsAt
    \/ WeightsSize_
    \/ WeightsAlpha
    \/ WeightsBuild
    \/ WeightsUpdateFirst
    \/ WeightsUpdateSecond
    \/ WeightsSnapshot
    \/ WeightsValue

SpecWeights == InitWeights /\ [][NextWeights]_vars

\* ------------------------------------------------------------ test values

\* the updates of the test
ValuesUpdates == 4

\* the draws of the test
ValuesDraws == {Ratio(1, 2), Ratio(1, 4), Ratio(1, 8), Ratio(3, 4)}

InitValues == InitWith(NewBuilder(0), NoScript)

\* ExponentialDecayHistogram::new()
new == Build

\* histogram.update_at(now, v), now the start time or two minutes after it
ValuesUpdate ==
    \E t \in {start_time, start_time + 120 * TicksPerSec}, v \in Vals, u \in ValuesDraws :
       calls < ValuesUpdates /\ update_at(t, v, u, "saturate")

NextValues ==
    \/ new
    \/ ValuesUpdate
    \/ snapshot
    \/ snapshot_values

SpecValues == InitValues /\ [][NextValues]_vars

\* ------------------------------------------- values of equal quantiles

\* the values updated with, three of them so that entries of two values can
\* follow one that has all the weight
TiesVals == {1, 5, 10}

InitTies == InitWith(NewBuilder(0), NoScript)

\* ExponentialDecayHistogram::with_size_and_alpha, with the default size
TiesNew == \E a \in Alphas : WithSizeAndAlpha(0, DefaultSize, a)

\* update_at with instants that do not go back
TiesUpdate ==
    \E t \in {i \in Instants : i >= clock}, v \in TiesVals, u \in Draws :
       calls < MaxUpdates /\ update_at(t, v, u, "saturate")

\* value(q) with a quantile it accepts
TiesValue == \E q \in {p \in Quantiles : QuantileAccepted(p)} : value(q)

NextTies ==
    \/ TiesNew
    \/ TiesUpdate
    \/ snapshot
    \/ TiesValue
    \/ snapshot_min
    \/ snapshot_max

SpecTies == InitTies /\ [][NextTies]_vars

\* ---------------------------------------------------------------- claims

\* a rescale has happened: the epoch of the histogram is not the one built
Rescaled == pc = "live" /\ start_time # builder.now

\* C1: on a histogram whose update calls all returned, the number of
\* retained samples is 0 before any update and from 1 to the capacity after
C1_SampleCount ==
    pc = "live" =>
        /\ (calls = 0 => Len(values) = 0)
        /\ (calls > 0 => Len(values) >= 1 /\ Len(values) <= size)

\* a histogram of capacity 2 is full after three updates, a rescale having
\* merged the first two samples
C1_Witness ==
    /\ pc = "live"
    /\ size = 2
    /\ calls = 3
    /\ Rescaled
    /\ Len(values) = 2
    /\ collided

\* C2 as stated: n <= capacity updates give a snapshot of exactly n entries
C2_Original ==
    (snap.some /\ snap.calls <= size) => Len(snap.entries) = snap.calls

\* C2 amended: n <= capacity updates give a snapshot of at most n entries,
\* and of exactly n when no insert found its priority already a key and no
\* rescale mapped two keys to one
C2_EntriesBelowCapacity ==
    (snap.some /\ snap.calls <= size) =>
        /\ Len(snap.entries) <= snap.calls
        /\ (~collided => Len(snap.entries) = snap.calls)

\* three updates below the capacity, with a rescale among them, all retained
C2_Witness ==
    /\ snap.some
    /\ snap.calls = 3
    /\ size > 3
    /\ Rescaled
    /\ ~collided
    /\ Len(snap.entries) = 3

\* C3 as stated: n > capacity updates give a snapshot of exactly capacity
\* entries
C3_Original ==
    (snap.some /\ snap.calls > size) => Len(snap.entries) = size

\* C3 amended: n > capacity updates give a snapshot of at most capacity
\* entries and at least one, and of exactly capacity entries when no insert
\* found its priority already a key and no rescale mapped two keys to one
C3_EntriesAboveCapacity ==
    (snap.some /\ snap.calls > size) =>
        /\ Len(snap.entries) >= 1
        /\ Len(snap.entries) <= size
        /\ (~collided => Len(snap.entries) = size)

\* three updates on a histogram of capacity 2, no priority met twice
C3_Witness ==
    /\ snap.some
    /\ snap.calls = 3
    /\ size = 2
    /\ ~collided
    /\ Len(snap.entries) = 2

\* C4: every value in the reservoir and in a snapshot was passed to an
\* earlier update, also after a rescale
C4_ValuesWereInserted ==
    /\ \A i \in 1..Len(values) : values[i].value \in inserted
    /\ \A i \in 1..Len(snap.entries) : snap.entries[i].value \in inserted

\* a snapshot of two samples of different values, taken after an idle hour
\* and the rescale it brings
C4_Witness ==
    /\ snap.some
    /\ Rescaled
    /\ Len(snap.entries) = 2
    /\ snap.entries[1].value # snap.entries[2].value

\* C5: the count of a snapshot is the number of update calls made before
\* it was taken, whatever became of their samples
C5_CountIsCalls ==
    /\ snap.some => snap.count = snap.calls
    /\ ret.kind = "count" => ret.v = snap.calls

\* count() gives 3 on a snapshot of one entry: of three updates one sample
\* was evicted and one discarded
C5_Witness ==
    /\ ret.kind = "count"
    /\ ret.v = 3
    /\ size = 1
    /\ Len(snap.entries) = 1

\* the value of the first entry whose quantile is at least q, of the last
\* entry when there is none
FirstAtLeast(es, q) ==
    LET S == {i \in 1..Len(es) : FLe(q, es[i].quantile)}
    IN IF S = {} THEN es[Len(es)].value
       ELSE es[CHOOSE i \in S : \A j \in S : i <= j].value

\* the entries whose quantile is q
Matches(es, q) == {i \in 1..Len(es) : es[i].quantile = q}

\* C7 as stated: value(q) on a snapshot with entries is the value of the
\* first entry whose cumulative quantile is at least q, of the last entry
\* when there is none
C7_Original ==
    (ret.kind = "value" /\ snap.entries # <<>>) =>
        ret.v = FirstAtLeast(snap.entries, ret.q)

\* C7 amended: so it is when at most one entry has the quantile q itself;
\* when several have it, value(q) is the value of one of them
C7_ValueAtQuantile ==
    (ret.kind = "value" /\ snap.entries # <<>>) =>
        IF Cardinality(Matches(snap.entries, ret.q)) <= 1
        THEN ret.v = FirstAtLeast(snap.entries, ret.q)
        ELSE ret.v \in {snap.entries[i].value : i \in Matches(snap.entries, ret.q)}

\* value(1/2) found no entry at quantile 1/2 and gave the second of three
\* entries, the first one at or above it
C7_Witness ==
    /\ ret.kind = "value"
    /\ ret.q = Ratio(1, 2)
    /\ Len(snap.entries) = 3
    /\ Matches(snap.entries, ret.q) = {}
    /\ FLt(snap.entries[1].quantile, ret.q)
    /\ FLt(ret.q, snap.entries[2].quantile)
    /\ snap.entries[1].value # snap.entries[2].value
    /\ ret.v = snap.entries[2].value

\* the quantiles asked for that are not in [0, 1]
OutOfUnit == {Ratio(3, 2), Neg, NaN}

\* C8: value(q) panics, and returns nothing, exactly when q is below 0,
\* above 1 or NaN, on a snapshot with or without entries
C8_ValuePanics ==
    ret.kind \in {"value", "panic"} =>
        /\ ret.kind = "panic" <=> ret.q \in OutOfUnit
        /\ ret.kind = "panic" => pc = "panicked"

\* value(3/2) panicked on a snapshot without entries
C8_Witness ==
    /\ ret.kind = "panic"
    /\ ret.q = Ratio(3, 2)
    /\ snap.some
    /\ snap.entries = <<>>

\* C9: size(0) and with_size_and_alpha(0, _) panic, a histogram built has a
\* capacity of at least 1, the one its builder had, and the capacity never
\* changes after
C9_CapacityPositiveAndFixed ==
    /\ [](pc = "live" => size >= 1 /\ size = builder.size)
    /\ [][/\ pc = "live" => size' = size
          /\ BuilderSize(0) => pc' = "panicked"
          /\ (\E now \in BuildInstants, a \in Alphas : WithSizeAndAlpha(now, 0, a))
                => pc' = "panicked"]_vars

\* a panic before any histogram was built: a size of zero was asked for
C9_Witness ==
    /\ pc = "panicked"
    /\ size = 0
    /\ calls = 0
    /\ ~snap.some

\* the sum of the normalized weights of the entries of value v
Aggregate(es, v) == SumWeights(SelectSeq(es, LAMBDA e : e.value = v), Zero)

\* the snapshot of the test: 40 updates of x, and 10 of y two minutes later
WeightsSnap == snap.some /\ script # NoScript /\ snap.calls = WeightsFirst + WeightsSecond

\* C6 as stated: the snapshot of the test has 50 entries, the weight of y
\* exceeds that of x, and value(0.5) and value(0.75) are both y, for any two
\* different values x and y
C6_Original ==
    WeightsSnap =>
        /\ Len(snap.entries) = WeightsFirst + WeightsSecond
        /\ FLt(Aggregate(snap.entries, script.x), Aggregate(snap.entries, script.y))
        /\ ret.kind = "value" => ret.v = script.y

\* C6 amended: the snapshot of the test has at most 50 entries; when no
\* insert found its priority already a key it has 50, the weight of y is
\* between 0.55 and 0.65 and that of x between 0.35 and 0.45, value(0.5)
\* is y, and value(0.75) is y when y > x and x when y < x
C6_WeightProportionality ==
    WeightsSnap =>
        /\ Len(snap.entries) <= WeightsFirst + WeightsSecond
        /\ ~collided =>
              /\ Len(snap.entries) = WeightsFirst + WeightsSecond
              /\ FLt(Aggregate(snap.entries, script.x), Aggregate(snap.entries, script.y))
              /\ FLt(Ratio(55, 100), Aggregate(snap.entries, script.y))
              /\ FLt(Aggregate(snap.entries, script.y), Ratio(65, 100))
              /\ FLt(Ratio(35, 100), Aggregate(snap.entries, script.x))
              /\ FLt(Aggregate(snap.entries, script.x), Ratio(45, 100))
              /\ (ret.kind = "value" /\ ret.q = Ratio(1, 2)) => ret.v = script.y
              /\ (ret.kind = "value" /\ ret.q = Ratio(3, 4)) =>
                    ret.v = IF script.y > script.x THEN script.y ELSE script.x

\* value(0.75) gave y on the 50 entries of the test, y the greater value
C6_Witness ==
    /\ WeightsSnap
    /\ ~collided
    /\ script.y > script.x
    /\ Len(snap.entries) = WeightsFirst + WeightsSecond
    /\ ret.kind = "value"
    /\ ret.q = Ratio(3, 4)
    /\ ret.v = script.y

\* C10: values() yields pairs in strictly ascending order of value, one for
\* every value among the entries, its weight the sum of the normalized
\* weights of the entries of that value; four entries of values 1, 1, 1, 10
\* and one weight yield (1, 0.75), (10, 0.25)
C10_ValuesAggregated ==
    ret.kind = "values" =>
        /\ \A i \in 1..(Len(ret.items) - 1) : ret.items[i][1] < ret.items[i + 1][1]
        /\ {ret.items[i][1] : i \in 1..Len(ret.items)}
              = {snap.entries[j].value : j \in 1..Len(snap.entries)}
        /\ \A i \in 1..Len(ret.items) :
              ret.items[i][2] = Aggregate(snap.entries, ret.items[i][1])
        /\ ( /\ Len(snap.entries) = ValuesUpdates
             /\ [j \in 1..ValuesUpdates |-> snap.entries[j].value] = <<1, 1, 1, 10>>
             /\ \A j \in 1..ValuesUpdates :
                   snap.entries[j].norm_weight = snap.entries[1].norm_weight )
           => ret.items = <<<<1, Ratio(3, 4)>>, <<10, Ratio(1, 4)>>>>

\* values() on the snapshot of the updates 1, 1, 1, 10 made at one time
C10_Witness ==
    /\ ret.kind = "values"
    /\ snap.calls = ValuesUpdates
    /\ ~Rescaled
    /\ Len(snap.entries) = ValuesUpdates
    /\ \A j \in 1..ValuesUpdates :
          snap.entries[j].norm_weight = snap.entries[1].norm_weight
    /\ ret.items = <<<<1, Ratio(3, 4)>>, <<10, Ratio(1, 4)>>>>

\* the only rescale of the behaviour took the scaling factor to zero
ScaledToZero ==
    /\ calls > 0
    /\ start_time # builder.now
    /\ FExp((-alpha) * Elapsed(start_time, builder.now)) = Zero

\* the sum of the normalized weights is 1 to within a sixteenth
SumsToOne(es) ==
    /\ FLe(Ratio(15, 16), SumWeights(es, Zero))
    /\ FLe(SumWeights(es, Zero), Ratio(17, 16))

Statistics == {"value", "max", "min", "mean", "stddev"}

\* the number 0 as the query of that kind returns it
ZeroOf(kind) == IF kind \in {"mean", "stddev"} THEN Zero ELSE 0

\* C12: the snapshot of a histogram without updates has no entries; on a
\* snapshot without entries value(q), min(), max(), mean() and stddev()
\* return 0, and stddev() returns 0 on a snapshot of one entry
C12_EmptyDefaults ==
    /\ (snap.some /\ snap.calls = 0) => snap.entries = <<>>
    /\ (ret.kind \in Statistics /\ snap.entries = <<>>) => ret.v = ZeroOf(ret.kind)
    /\ (ret.kind = "stddev" /\ Len(snap.entries) = 1) => ret.v = Zero

\* mean() returned 0 on the snapshot of a histogram without updates
C12_Witness ==
    /\ snap.some
    /\ snap.calls = 0
    /\ snap.entries = <<>>
    /\ ret.kind = "mean"
    /\ ret.v = Zero

\* the samples of the map m, as a set
Samples(m) == {m[i] : i \in 1..Len(m)}

\* the latest step was an update_at that returned, having found capacity
\* samples in the map after its rescale
AtCapacity == last.some /\ Len(last.before) = size

\* C13 as stated: an update that finds capacity samples and returns puts
\* its sample in place of the one at the least key when its priority is
\* above that key, and else leaves the map as it is
C13_Original ==
    AtCapacity =>
        IF FLt(last.before[1].k, last.sample.k)
        THEN Samples(values) =
                (Samples(last.before) \ {last.before[1]}) \cup {last.sample}
        ELSE values = last.before

\* C13 amended: so it is when the priority is not a key of the map; when
\* it is one and above the least key, the sample takes the place of the
\* sample at that key and the one at the least key stays
C13_AdmissionAtCapacity ==
    AtCapacity =>
        LET m == last.before
            e == last.sample
        IN IF FLt(m[1].k, e.k)
           THEN IF KeyIndex(m, e.k) = 0
                THEN Samples(values) = (Samples(m) \ {m[1]}) \cup {e}
                ELSE Samples(values) = (Samples(m) \ {m[KeyIndex(m, e.k)]}) \cup {e}
           ELSE values = m

\* an update found two samples in a histogram of capacity 2, its priority
\* above the least key and no key: it took the place of the sample there
C13_Witness ==
    /\ AtCapacity
    /\ size = 2
    /\ FLt(last.before[1].k, last.sample.k)
    /\ KeyIndex(last.before, last.sample.k) = 0
    /\ last.before[1].value # last.sample.value
    /\ last.before[1] \notin Samples(values)
    /\ last.before[2] \in Samples(values)
    /\ last.sample \in Samples(values)

\* the latest step was an update_at that returned and had rescaled
LastRescaled == last.some /\ last.time >= last.next_scale_time

\* the scaling factor of that rescale
LastFactor == FExp((-alpha) * Elapsed(last.time, last.start_time))

\* that rescale gave the keys of the map products that all differ
LastKeysDistinct ==
    \A i, j \in 1..Len(last.old) :
       i < j => FMul(last.old[i].k, LastFactor) # FMul(last.old[j].k, LastFactor)

\* C14 as stated: the map has as many samples after a rescale as before it
C14_Original ==
    LastRescaled => Len(last.before) = Len(last.old)

\* C14 amended: the map has at most as many samples after a rescale as
\* before it, at least one when it had any, and as many when the scaled keys
\* all differ; the insertion that follows takes no sample off the count
C14_RescaleKeepsSamples ==
    /\ LastRescaled =>
          /\ Len(last.before) <= Len(last.old)
          /\ last.old # <<>> => Len(last.before) >= 1
          /\ LastKeysDistinct <=> Len(last.before) = Len(last.old)
    /\ last.some => Len(values) >= Len(last.before)

\* a rescale of two samples that kept both
C14_Witness ==
    /\ LastRescaled
    /\ Len(last.old) = 2
    /\ Len(last.before) = 2
    /\ LastFactor # Zero
    /\ Len(values) = 3

\* the sample e is the sample o scaled by the factor f
ScaledFrom(e, o, f) ==
    /\ e.k = FMul(o.k, f)
    /\ e.weight = FMul(o.weight, f)
    /\ e.value = o.value

\* C15: an update_at(t, v) that returns has rescaled exactly when t was at
\* or after next_scale_time. If so the epoch starts at t, the next rescale
\* is due an hour after t, the stored samples were scaled before the new
\* one was made, and the new sample has weight exp(0) = 1; if not, the epoch,
\* the time of the next rescale and the samples that stay are as they were
C15_RescaleBeforeInsert ==
    last.some =>
        /\ last.sample.weight = FExp(alpha * Elapsed(last.time, start_time))
        /\ Samples(values) \subseteq Samples(last.before) \cup {last.sample}
        /\ IF last.time >= last.next_scale_time
           THEN /\ start_time = last.time
                /\ next_scale_time = last.time + RESCALE_THRESHOLD * TicksPerSec
                /\ last.sample.weight = One
                /\ \A e \in Samples(last.before) :
                      \E o \in Samples(last.old) : ScaledFrom(e, o, LastFactor)
           ELSE /\ start_time = last.start_time
                /\ next_scale_time = last.next_scale_time
                /\ last.before = last.old

\* an update exactly at next_scale_time rescaled a stored sample to a
\* smaller weight and put in a sample of weight 1
C15_Witness ==
    /\ last.some
    /\ last.time = last.next_scale_time
    /\ start_time = last.time
    /\ Len(last.old) = 1
    /\ Len(last.before) = 1
    /\ FLt(Zero, last.before[1].weight)
    /\ FLt(last.before[1].weight, last.old[1].weight)
    /\ last.sample.weight = One
    /\ last.sample \in Samples(values)

\* C16: once a histogram is built, next_scale_time is start_time plus
\* RESCALE_THRESHOLD, whatever updates and rescales have happened
C16_NextScaleInSync ==
    (pc = "live" \/ calls > 0) =>
        next_scale_time = start_time + RESCALE_THRESHOLD * TicksPerSec

\* the two times after a rescale and a further update
C16_Witness ==
    /\ Rescaled
    /\ last.some
    /\ last.time < last.next_scale_time
    /\ start_time = RESCALE_THRESHOLD * TicksPerSec
    /\ next_scale_time = 2 * RESCALE_THRESHOLD * TicksPerSec

\* C17 as stated: two samples a and b with key(a) < key(b) before a rescale
\* are both in the map after it, at keys in the same strict order
C17_Original ==
    LastRescaled =>
        \A i, j \in 1..Len(last.old) :
           i < j =>
              \E a, b \in 1..Len(last.before) :
                 /\ ScaledFrom(last.before[a], last.old[i], LastFactor)
                 /\ ScaledFrom(last.before[b], last.old[j], LastFactor)
                 /\ FLt(last.before[a].k, last.before[b].k)

\* C17 amended: a rescale never reverses the order of two keys; when the
\* scaled keys all differ every sample stays, at its place in the order of
\* the keys, and the sample at the least key is the same one
C17_RescaleKeepsOrder ==
    LastRescaled =>
        /\ \A i, j \in 1..Len(last.old) :
              i < j => FLe(FMul(last.old[i].k, LastFactor), FMul(last.old[j].k, LastFactor))
        /\ LastKeysDistinct =>
              /\ Len(last.before) = Len(last.old)
              /\ \A i \in 1..Len(last.old) :
                    ScaledFrom(last.before[i], last.old[i], LastFactor)
              /\ \A i \in 1..(Len(last.before) - 1) :
                    FLt(last.before[i].k, last.before[i + 1].k)

\* a rescale of two samples of different values by a positive factor: both
\* stayed, in their order
C17_Witness ==
    /\ LastRescaled
    /\ LastFactor # Zero
    /\ Len(last.old) = 2
    /\ Len(last.before) = 2
    /\ last.old[1].value # last.old[2].value
    /\ last.before[1].value = last.old[1].value
    /\ FLt(last.before[1].k, last.before[2].k)
    /\ FLt(last.before[2].k, last.old[1].k)

\* the entries are in ascending order of value, the first quantile is 0
\* and every next one is the quantile before it plus the weight before it
PrefixSums(es) ==
    /\ \A i \in 1..(Len(es) - 1) : es[i].value <= es[i + 1].value
    /\ es # <<>> => es[1].quantile = Zero
    /\ \A i \in 1..(Len(es) - 1) :
          /\ es[i + 1].quantile = FAdd(es[i].quantile, es[i].norm_weight)
          /\ FLe(es[i].quantile, es[i + 1].quantile)

\* C18 as stated: the entries of a snapshot are in ascending order of
\* value, with the exclusive prefix sums of the normalized weights as
\* quantiles, and every quantile is below 1
C18_Original ==
    snap.some =>
        /\ PrefixSums(snap.entries)
        /\ \A i \in 1..Len(snap.entries) : FLt(snap.entries[i].quantile, One)

\* C18 amended: every quantile is at most 1, to within a sixteenth
C18_SortedPrefixSums ==
    snap.some =>
        /\ PrefixSums(snap.entries)
        /\ \A i \in 1..Len(snap.entries) : FLe(snap.entries[i].quantile, Ratio(17, 16))

\* a snapshot of three entries of two values and three quantiles
C18_Witness ==
    /\ snap.some
    /\ Len(snap.entries) = 3
    /\ snap.entries[1].value < snap.entries[3].value
    /\ snap.entries[1].quantile = Zero
    /\ FLt(snap.entries[1].quantile, snap.entries[2].quantile)
    /\ FLt(snap.entries[2].quantile, snap.entries[3].quantile)
    /\ FLt(snap.entries[3].quantile, One)

\* C19 as stated: while the instants given do not go back, every key of the
\* map is finite and every stored weight is positive and finite
C19_KeysAndWeightsFinite ==
    (pc = "live" /\ ordered) =>
        \A i \in 1..Len(values) :
           /\ values[i].k.c \in {"zero", "fin"}
           /\ values[i].weight.c = "fin"

\* C20: when no instant given was earlier than the construction or than an
\* instant given before, an update_at(t, _) that returns leaves
\* start_time <= t < next_scale_time, so that the time elapsed in the epoch
\* that weighted its sample is below RESCALE_THRESHOLD and no second rescale
\* is due
C20_UpdateWithinEpoch ==
    (last.some /\ ordered) =>
        /\ start_time <= last.time
        /\ last.time < next_scale_time
        /\ Elapsed(last.time, start_time) < RESCALE_THRESHOLD
        /\ rescale_if_needed(last.time).start_time = start_time

\* an update late in the epoch of a histogram built two minutes in: no
\* rescale was due, and close to an hour had elapsed
C20_Witness ==
    /\ last.some
    /\ ordered
    /\ start_time = 120 * TicksPerSec + 1
    /\ last.time = RESCALE_THRESHOLD * TicksPerSec
    /\ last.time < next_scale_time
    /\ Elapsed(last.time, start_time) > 0

\* the values value(q) can return on the entries es
ValueResults(es, q) == {es[value_index(es, r)].value : r \in binary_search(es, q)}

\* value(q) returned no more than value(p) can for a greater p, and no less
\* than it can for a smaller p
Monotone ==
    \A p \in {x \in Quantiles : QuantileAccepted(x)} :
       \A w \in ValueResults(snap.entries, p) :
          /\ FLt(ret.q, p) => ret.v <= w
          /\ FLt(p, ret.q) => w <= ret.v

====
